---- MODULE Spec2Model ----
(***************************************************************************)
(* weather-pal: a Zellij plugin that resolves a location (system timezone  *)
(* or typed place name), geocodes it and fetches an hourly forecast.       *)
(*                                                                         *)
(* The model follows src/src/main.rs.  The plugin's State struct is the    *)
(* seven variables below; the host runtime is the bag of requests in       *)
(* flight.  Text is a sequence of one-character strings, Option<T> is a    *)
(* sequence of length at most one, byte vectors that are no valid UTF-8    *)
(* are the value INVALID_UTF8.                                             *)
(***************************************************************************)
EXTENDS Integers, Sequences, FiniteSets, Bags, TLC

VARIABLES
    weather_data,           \* BTreeMap<usize, HourlyData>
    requested_timezone,     \* Option<String>: the location hint
    weather_location,       \* Option<String>: "{city}, {country}"
    geolocation,            \* Option<(f64, f64)>
    error,                  \* Option<String>
    fetching_data,          \* bool
    location_being_typed,   \* Option<String>
    pending,                \* host: bag of requests issued and not yet completed
    permission_pending,     \* host: the permission request of load() is unanswered
    last,                   \* the event update() handled last, the request it answers
                            \* and what held before it
    sent,                   \* the requests update() issued while handling it
    idle_since_confirm,     \* a confirm started a fetch and no key was pressed since
    inputs                  \* environment: keys pressed and unsolicited completions so far

state_vars == <<weather_data, requested_timezone, weather_location, geolocation,
                error, fetching_data, location_being_typed>>

vars == <<weather_data, requested_timezone, weather_location, geolocation,
          error, fetching_data, location_being_typed,
          pending, permission_pending, last, sent, idle_since_confirm,
          inputs>>

----------------------------------------------------------------------------
(* Bounds of the model *)

\* most events that answer no request of the plugin: keys the user presses
\* and completions of another origin
MaxInputs == 3
\* longest configured location of the resolver specification
MaxHintLen == 3

----------------------------------------------------------------------------
(* Option, text, bytes *)

None == <<>>
Some(v) == <<v>>
IsSome(o) == Len(o) = 1
Unwrap(o) == o[1]

INVALID_UTF8 == <<"INVALID_UTF8">>

\* String::from_utf8(bytes).ok()
from_utf8(bytes) == IF bytes = INVALID_UTF8 THEN None ELSE Some(bytes)

IsWhitespace(c) == c \in {" ", "\n", "\t"}

RECURSIVE trim_start(_)
trim_start(s) ==
    IF s # <<>> /\ IsWhitespace(Head(s)) THEN trim_start(Tail(s)) ELSE s

RECURSIVE trim_end(_)
trim_end(s) ==
    IF s # <<>> /\ IsWhitespace(s[Len(s)])
    THEN trim_end(SubSeq(s, 1, Len(s) - 1))
    ELSE s

\* str::trim
trim(s) == trim_end(trim_start(s))

\* str::split(sep): the pieces between separators, at least one piece
RECURSIVE split(_, _)
split(s, sep) ==
    IF \E i \in 1..Len(s) : s[i] = sep
    THEN LET i == CHOOSE k \in 1..Len(s) :
                      s[k] = sep /\ \A j \in 1..(k - 1) : s[j] # sep
         IN  <<SubSeq(s, 1, i - 1)>> \o split(SubSeq(s, i + 1, Len(s)), sep)
    ELSE <<s>>

\* Iterator::last
last_of(pieces) == IF pieces = <<>> THEN None ELSE Some(pieces[Len(pieces)])

\* str::replace(from, to) for a one-character pattern
RECURSIVE replace(_, _, _)
replace(s, from, to) ==
    IF s = <<>> THEN <<>>
    ELSE <<IF Head(s) = from THEN to ELSE Head(s)>> \o replace(Tail(s), from, to)

----------------------------------------------------------------------------
(* Outbound requests *)

TIMEZONE_COMMAND_ID == "TIMEZONE_COMMAND_ID"

CommandRequest ==
    [call |-> "run_command", id |-> "TIMEZONE_COMMAND_ID",
     name |-> <<>>, lat |-> 0, lon |-> 0]

GeocodeRequest(city) ==
    [call |-> "web_request", id |-> "geocode", name |-> city, lat |-> 0, lon |-> 0]

WeatherRequest(latitude, longitude) ==
    [call |-> "web_request", id |-> "weather", name |-> <<>>,
     lat |-> latitude, lon |-> longitude]

make_weather_web_request(latitude, longitude) ==
    <<WeatherRequest(latitude, longitude)>>

\* geocode_city taking the first piece of the split instead of the last
FirstSegmentCity(timezone) ==
    IF IsSome(timezone)
    THEN Some(replace(replace(Head(split(Unwrap(timezone), "/")), " ", "+"), "-", "+"))
    ELSE None

\* timezone.as_ref().and_then(|t| t.split('/').last())
\*     .map(|c| c.replace(' ', "+").replace('-', "+"))
geocode_city(timezone) ==
    IF IsSome(timezone) /\ IsSome(last_of(split(Unwrap(timezone), "/")))
    THEN Some(replace(replace(Unwrap(last_of(split(Unwrap(timezone), "/"))),
                              " ", "+"), "-", "+"))
    ELSE None

make_geocode_request(timezone) ==
    IF IsSome(geocode_city(timezone))
    THEN <<GeocodeRequest(Unwrap(geocode_city(timezone)))>>
    ELSE <<>>

\* the resolver running the timezone command whatever the hint
AlwaysDiscoverTimezone(timezone) == <<CommandRequest>>

discover_local_timezone_or_make_geocode_request(timezone) ==
    IF IsSome(timezone)
    THEN make_geocode_request(timezone)
    ELSE <<CommandRequest>>

----------------------------------------------------------------------------
(* JSON documents and the two parsers *)

\* JsonValue: a number, a string or null (what indexing a missing key or an
\* index out of range yields)
JsonNumber(n) == [t |-> "number", n |-> n, s |-> ""]
JsonString(s) == [t |-> "string", n |-> 0, s |-> s]
JsonNull == [t |-> "null", n |-> 0, s |-> ""]

as_f64(v) == IF v.t = "number" THEN Some(v.n) ELSE None
as_usize(v) == IF v.t = "number" /\ v.n >= 0 THEN Some(v.n) ELSE None
as_str(v) == IF v.t = "string" THEN Some(v.s) ELSE None

\* The value a well-formed document of series `base` holds for `field` at hour i
HourlyValue(base, field, i) ==
    CASE field = "temperature_2m" -> base * 10 + i - 20
      [] field = "precipitation_probability" -> (base + i) % 101
      [] field = "wind_speed_10m" -> base + (i % 50)
      [] field = "wind_direction_10m" -> (base + 7 * i) % 361
      [] field = "weather_code" -> (base + 3 * i) % 100

\* body["hourly"][field][i].  The five arrays of a document have `len` entries
\* of series `base`; at most one entry (bad_field, bad_index) holds bad_value.
Hourly(doc, field, i) ==
    IF i >= doc.hourly.len THEN JsonNull
    ELSE IF doc.hourly.bad_field = field /\ doc.hourly.bad_index = i
         THEN doc.hourly.bad_value
         ELSE JsonNumber(HourlyValue(doc.hourly.base, field, i))

\* body["results"][0][field]
FirstResult(doc, field) ==
    IF doc.results = <<>> THEN JsonNull ELSE doc.results[1][field]

Ok(v) == [ok |-> TRUE, val |-> v, err |-> ""]
Err(e) == [ok |-> FALSE, val |-> <<>>, err |-> e]

\* for i in 0..167
HOURS == 167

EmptyForecast == [i \in {} |-> 0]

HourlyData(doc, i) ==
    [temperature_2m |-> Unwrap(as_f64(Hourly(doc, "temperature_2m", i))),
     precipitation_probability |->
         Unwrap(as_usize(Hourly(doc, "precipitation_probability", i))),
     wind_speed_10m |-> Unwrap(as_f64(Hourly(doc, "wind_speed_10m", i))),
     wind_direction_10m |-> Unwrap(as_usize(Hourly(doc, "wind_direction_10m", i))),
     wmo_code |-> Unwrap(as_usize(Hourly(doc, "weather_code", i)))]

\* The `?` of one pass of the loop: the first field of hour i that fails
HourError(doc, i) ==
    IF ~IsSome(as_f64(Hourly(doc, "temperature_2m", i)))
        THEN Some("Failed to parse temperature")
    ELSE IF ~IsSome(as_usize(Hourly(doc, "precipitation_probability", i)))
        THEN Some("Failed to parse precipitation_probability")
    ELSE IF ~IsSome(as_f64(Hourly(doc, "wind_speed_10m", i)))
        THEN Some("Failed to parse wind speed")
    ELSE IF ~IsSome(as_usize(Hourly(doc, "wind_direction_10m", i)))
        THEN Some("Failed to parse wind direction")
    ELSE IF ~IsSome(as_usize(Hourly(doc, "weather_code", i)))
        THEN Some("Failed to parse weather code")
    ELSE None

\* the loop `for i in 0..167` stops at the first hour with a failing field
FirstHourError(doc) ==
    LET failing == {i \in 0..(HOURS - 1) : IsSome(HourError(doc, i))}
    IN  IF failing = {} THEN None
        ELSE HourError(doc, CHOOSE i \in failing : \A j \in failing : i <= j)

\* parse_weather_data returning the hours read before the first failing one
ParseKeepsLeadingHours(body) ==
    IF ~body.utf8 THEN Err("invalid utf-8 sequence")
    ELSE IF ~body.json THEN Err("unexpected character")
    ELSE LET failing == {i \in 0..(HOURS - 1) : IsSome(HourError(body.doc, i))}
             stop == IF failing = {} THEN HOURS
                     ELSE CHOOSE i \in failing : \A j \in failing : i <= j
         IN  Ok([i \in 0..(stop - 1) |-> HourlyData(body.doc, i)])

parse_weather_data(body) ==
    IF ~body.utf8 THEN Err("invalid utf-8 sequence")
    ELSE IF ~body.json THEN Err("unexpected character")
    ELSE LET failure == FirstHourError(body.doc)
         IN  IF IsSome(failure)
             THEN Err(Unwrap(failure))
             ELSE Ok([i \in 0..(HOURS - 1) |-> HourlyData(body.doc, i)])

parse_lat_lon_and_location(body) ==
    IF ~body.utf8 THEN Err("invalid utf-8 sequence")
    ELSE IF ~body.json THEN Err("unexpected character")
    ELSE IF ~IsSome(as_f64(FirstResult(body.doc, "latitude")))
        THEN Err("Failed to parse latitude")
    ELSE IF ~IsSome(as_f64(FirstResult(body.doc, "longitude")))
        THEN Err("Failed to parse longitude")
    ELSE IF ~IsSome(as_str(FirstResult(body.doc, "name")))
        THEN Err("Failed to parse city")
    ELSE IF ~IsSome(as_str(FirstResult(body.doc, "country")))
        THEN Err("Failed to parse country")
    ELSE Ok([latitude |-> Unwrap(as_f64(FirstResult(body.doc, "latitude"))),
             longitude |-> Unwrap(as_f64(FirstResult(body.doc, "longitude"))),
             location |-> <<Unwrap(as_str(FirstResult(body.doc, "name"))), ", ",
                            Unwrap(as_str(FirstResult(body.doc, "country")))>>])

----------------------------------------------------------------------------
(* What the host and the two servers may deliver *)

\* The keys of the host
KeyChar(c) == [kind |-> "Char", ch |-> c]
KeyCtrl(c) == [kind |-> "Ctrl", ch |-> c]
KeyBackspace == [kind |-> "Backspace", ch |-> ""]
KeyEsc == [kind |-> "Esc", ch |-> ""]

\* characters the user types
Alphabet == {"a", " "}

Keys ==
    {KeyChar(c) : c \in Alphabet \cup {"\n"}}
        \cup {KeyCtrl("w"), KeyBackspace, KeyEsc}

\* the "location" entry of the plugin configuration, when given
ConfigLocations == {<<"E", "/", "B">>}

\* what a run of the timezone command may report: exit code, stdout, stderr
CommandOutcomes ==
    {[exit_code |-> Some(0), stdout |-> <<"U", "/", "N", "-", "Y", "\n">>,
      stderr |-> <<>>],
     [exit_code |-> Some(0), stdout |-> INVALID_UTF8, stderr |-> <<>>],
     [exit_code |-> Some(0), stdout |-> <<"U", "/", "N", "-", "Y", "\n">>,
      stderr |-> <<"e">>],
     [exit_code |-> Some(1), stdout |-> <<>>, stderr |-> <<"e">>],
     [exit_code |-> Some(1), stdout |-> <<>>, stderr |-> <<>>],
     [exit_code |-> None, stdout |-> <<>>, stderr |-> <<>>]}

NoHourly == [len |-> 0, base |-> 0, bad_field |-> "", bad_index |-> 0,
             bad_value |-> JsonNull]

JsonBody(hourly, results) ==
    [utf8 |-> TRUE, json |-> TRUE, doc |-> [hourly |-> hourly, results |-> results]]
MalformedBody ==
    [utf8 |-> TRUE, json |-> FALSE, doc |-> [hourly |-> NoHourly, results |-> <<>>]]
InvalidUtf8Body ==
    [utf8 |-> FALSE, json |-> FALSE, doc |-> [hourly |-> NoHourly, results |-> <<>>]]

\* a weather document whose five arrays hold `len` entries of series `base`
WeatherBody(len, base) ==
    JsonBody([NoHourly EXCEPT !.len = len, !.base = base], <<>>)
\* the same with the entry of `field` at hour i replaced by `value`
DefectiveWeatherBody(len, base, field, i, value) ==
    JsonBody([len |-> len, base |-> base, bad_field |-> field, bad_index |-> i,
              bad_value |-> value], <<>>)

Response(status_code, body) == [status_code |-> status_code, body |-> body]

\* what the weather server may answer
WeatherResponses ==
    {Response(200, WeatherBody(HOURS, 1)),
     Response(200, WeatherBody(HOURS + 1, 2)),
     Response(200, DefectiveWeatherBody(HOURS, 2, "weather_code", HOURS - 1,
                                        JsonString("rain"))),
     Response(503, MalformedBody)}

Place(latitude, longitude, name, country) ==
    [latitude |-> latitude, longitude |-> longitude, name |-> name,
     country |-> country]

\* what the geocoding server may answer
GeocodeResponses ==
    {Response(200, JsonBody(NoHourly,
                   <<Place(JsonNumber(52), JsonNumber(13),
                           JsonString("Berlin"), JsonString("Germany"))>>)),
     Response(200, JsonBody(NoHourly,
                   <<Place(JsonNumber(40), JsonNumber(-74),
                           JsonString("New York"), JsonString("United States")),
                     Place(JsonNumber(1), JsonNumber(2),
                           JsonString("York"), JsonString("United Kingdom"))>>)),
     Response(200, JsonBody(NoHourly, <<>>)),
     Response(200, JsonBody(NoHourly,
                   <<Place(JsonNumber(48), JsonNumber(2),
                           JsonString("Paris"), JsonNull)>>)),
     Response(503, InvalidUtf8Body)}

\* a command of another origin: it succeeds silently or fails
UnsolicitedOutcomes ==
    {out \in CommandOutcomes :
         /\ out.stdout # INVALID_UTF8
         /\ out.exit_code # None
         /\ out.exit_code = Some(0) => out.stderr = <<>>}

\* well-formed answers of either server, as they may reach update() under a
\* context that carries no tag of this plugin
UnsolicitedResponses ==
    {response \in WeatherResponses \cup GeocodeResponses :
         /\ response.status_code = 200
         /\ \/ response.body.doc.hourly.len = HOURS
            \/ Len(response.body.doc.results) = 1}

ResponsesFor(id) == IF id = "weather" THEN WeatherResponses ELSE GeocodeResponses

\* tags this plugin never puts on a request
ForeignContexts == {None, Some("other")}

\* parse_weather_data of each document the weather server sends, decoded once
DecodedWeather ==
    [body \in {response.body : response \in WeatherResponses} |->
         parse_weather_data(body)]

\* parse_weather_data(body)
decode_weather(body) ==
    IF body \in DOMAIN DecodedWeather
    THEN DecodedWeather[body]
    ELSE parse_weather_data(body)

\* the five arrays parse_weather_data reads
HourlyFields ==
    {"temperature_2m", "precipitation_probability", "wind_speed_10m",
     "wind_direction_10m", "weather_code"}

\* hours where a document may be defective: the first, one in the middle, the
\* last one read and the first one not read
DefectHours == {0, 83, HOURS - 1, HOURS}

\* what may stand in place of a number: nothing, a string, a negative number,
\* another number
DefectValues == {JsonNull, JsonString("x"), JsonNumber(-1), JsonNumber(7)}

\* weather answers for the parser: arrays that are absent, too short, exact or
\* longer, one entry of one array defective, and bodies that are no JSON
ParserWeatherResponses ==
    {Response(200, WeatherBody(len, 1)) :
         len \in {0, 1, HOURS - 1, HOURS, HOURS + 1}}
    \cup {Response(200, DefectiveWeatherBody(len, 1, field, i, value)) :
              len \in {HOURS, HOURS + 1}, field \in HourlyFields,
              i \in DefectHours, value \in DefectValues}
    \cup {Response(200, MalformedBody), Response(200, InvalidUtf8Body)}

ParserResponsesFor(id) ==
    IF id = "weather" THEN ParserWeatherResponses ELSE GeocodeResponses

----------------------------------------------------------------------------
(* The plugin state and update(), one operator per match arm.  Each returns *)
(* the new State and the requests the arm issued.                           *)

State ==
    [weather_data |-> weather_data,
     requested_timezone |-> requested_timezone,
     weather_location |-> weather_location,
     geolocation |-> geolocation,
     error |-> error,
     fetching_data |-> fetching_data,
     location_being_typed |-> location_being_typed]

\* #[derive(Default)] struct State
DefaultState ==
    [weather_data |-> EmptyForecast,
     requested_timezone |-> None,
     weather_location |-> None,
     geolocation |-> None,
     error |-> None,
     fetching_data |-> FALSE,
     location_being_typed |-> None]

\* load(configuration)
load(location) == [DefaultState EXCEPT !.requested_timezone = location]

Result(s, requests) == [state |-> s, sent |-> requests]

\* Event::PermissionRequestResult(..)
on_permission_request_result(s) ==
    Result(s, discover_local_timezone_or_make_geocode_request(s.requested_timezone))

\* Event::RunCommandResult(exit_code, stdout, stderr, context)
on_run_command_result(s, exit_code, stdout, stderr, context) ==
    LET s1 == IF stderr # <<>>
              THEN [s EXCEPT !.error =
                        Some(<<"Error fetching timezone: ",
                               IF IsSome(from_utf8(stderr))
                               THEN Unwrap(from_utf8(stderr)) ELSE <<>> >>)]
              ELSE s
        s2 == IF context = Some(TIMEZONE_COMMAND_ID) /\ exit_code = Some(0)
              THEN [s1 EXCEPT !.requested_timezone =
                        IF IsSome(from_utf8(stdout))
                        THEN Some(trim(Unwrap(from_utf8(stdout))))
                        ELSE None]
              ELSE s1
    IN  Result(s2, make_geocode_request(s2.requested_timezone))

\* on_weather_result dropping the forecast on a non-success status
WeatherErrorClearsForecast(s, status_code, body) ==
    IF status_code # 200
    THEN Result([s EXCEPT !.error = Some(<<"Failed weather web request">>),
                          !.weather_data = EmptyForecast], <<>>)
    ELSE LET parsed == decode_weather(body)
         IN  IF parsed.ok
             THEN Result([s EXCEPT !.weather_data = parsed.val,
                                   !.fetching_data = FALSE], <<>>)
             ELSE Result([s EXCEPT !.error =
                              Some(<<"Failed to parse data: ", parsed.err>>)], <<>>)

\* on_weather_result clearing the error when a forecast is stored
WeatherSuccessClearsError(s, status_code, body) ==
    IF status_code # 200
    THEN Result([s EXCEPT !.error = Some(<<"Failed weather web request">>)], <<>>)
    ELSE LET parsed == decode_weather(body)
         IN  IF parsed.ok
             THEN Result([s EXCEPT !.weather_data = parsed.val,
                                   !.fetching_data = FALSE,
                                   !.error = None], <<>>)
             ELSE Result([s EXCEPT !.error =
                              Some(<<"Failed to parse data: ", parsed.err>>)], <<>>)

\* on_weather_result keeping a forecast that is already stored
WeatherKeepsFirstForecast(s, status_code, body) ==
    IF status_code # 200
    THEN Result([s EXCEPT !.error = Some(<<"Failed weather web request">>)], <<>>)
    ELSE LET parsed == decode_weather(body)
         IN  IF parsed.ok
             THEN Result([s EXCEPT !.weather_data =
                                       IF s.weather_data = EmptyForecast
                                       THEN parsed.val ELSE s.weather_data,
                                   !.fetching_data = FALSE], <<>>)
             ELSE Result([s EXCEPT !.error =
                              Some(<<"Failed to parse data: ", parsed.err>>)], <<>>)

\* on_weather_result dropping an answer that arrives when no fetch is running
WeatherSuccessOnlyWhileFetching(s, status_code, body) ==
    IF status_code # 200
    THEN Result([s EXCEPT !.error = Some(<<"Failed weather web request">>)], <<>>)
    ELSE LET parsed == decode_weather(body)
         IN  IF parsed.ok
             THEN IF s.fetching_data
                  THEN Result([s EXCEPT !.weather_data = parsed.val,
                                        !.fetching_data = FALSE], <<>>)
                  ELSE Result(s, <<>>)
             ELSE Result([s EXCEPT !.error =
                              Some(<<"Failed to parse data: ", parsed.err>>)], <<>>)

\* Some("weather") => ...
on_weather_result(s, status_code, body) ==
    IF status_code # 200
    THEN Result([s EXCEPT !.error = Some(<<"Failed weather web request">>)], <<>>)
    ELSE LET parsed == decode_weather(body)
         IN  IF parsed.ok
             THEN Result([s EXCEPT !.weather_data = parsed.val,
                                   !.fetching_data = FALSE], <<>>)
             ELSE Result([s EXCEPT !.error =
                              Some(<<"Failed to parse data: ", parsed.err>>)], <<>>)

\* on_geocode_result ending the fetch as soon as the place is resolved
GeocodeSuccessEndsFetching(s, status_code, body) ==
    IF status_code # 200
    THEN Result([s EXCEPT !.error = Some(<<"Failed geocode web request">>)], <<>>)
    ELSE LET parsed == parse_lat_lon_and_location(body)
         IN  IF parsed.ok
             THEN Result([s EXCEPT
                              !.geolocation =
                                  Some(<<parsed.val.latitude, parsed.val.longitude>>),
                              !.weather_location = Some(parsed.val.location),
                              !.fetching_data = FALSE],
                         make_weather_web_request(parsed.val.latitude,
                                                  parsed.val.longitude))
             ELSE Result([s EXCEPT !.error =
                              Some(<<"Failed to parse geocode: ", parsed.err>>)], <<>>)

\* on_geocode_result dropping the stored coordinates when the body is rejected
GeocodeFailureClearsGeolocation(s, status_code, body) ==
    IF status_code # 200
    THEN Result([s EXCEPT !.error = Some(<<"Failed geocode web request">>)], <<>>)
    ELSE LET parsed == parse_lat_lon_and_location(body)
         IN  IF parsed.ok
             THEN Result([s EXCEPT
                              !.geolocation =
                                  Some(<<parsed.val.latitude, parsed.val.longitude>>),
                              !.weather_location = Some(parsed.val.location)],
                         make_weather_web_request(parsed.val.latitude,
                                                  parsed.val.longitude))
             ELSE Result([s EXCEPT !.geolocation = None,
                                   !.error =
                              Some(<<"Failed to parse geocode: ", parsed.err>>)], <<>>)

\* on_geocode_result storing the coordinates without the label
GeocodeStoresOnlyCoordinates(s, status_code, body) ==
    IF status_code # 200
    THEN Result([s EXCEPT !.error = Some(<<"Failed geocode web request">>)], <<>>)
    ELSE LET parsed == parse_lat_lon_and_location(body)
         IN  IF parsed.ok
             THEN Result([s EXCEPT
                              !.geolocation =
                                  Some(<<parsed.val.latitude, parsed.val.longitude>>)],
                         make_weather_web_request(parsed.val.latitude,
                                                  parsed.val.longitude))
             ELSE Result([s EXCEPT !.error =
                              Some(<<"Failed to parse geocode: ", parsed.err>>)], <<>>)

\* Some("geocode") => ...
on_geocode_result(s, status_code, body) ==
    IF status_code # 200
    THEN Result([s EXCEPT !.error = Some(<<"Failed geocode web request">>)], <<>>)
    ELSE LET parsed == parse_lat_lon_and_location(body)
         IN  IF parsed.ok
             THEN Result([s EXCEPT
                              !.geolocation =
                                  Some(<<parsed.val.latitude, parsed.val.longitude>>),
                              !.weather_location = Some(parsed.val.location)],
                         make_weather_web_request(parsed.val.latitude,
                                                  parsed.val.longitude))
             ELSE Result([s EXCEPT !.error =
                              Some(<<"Failed to parse geocode: ", parsed.err>>)], <<>>)

\* Event::WebRequestResult(status_code, _headers, body, context)
on_web_request_result(s, status_code, body, context) ==
    IF context = Some("weather") THEN on_weather_result(s, status_code, body)
    ELSE IF context = Some("geocode") THEN on_geocode_result(s, status_code, body)
    ELSE Result(s, <<>>)

\* on_enter reading the draft without take(): the draft stays
EnterKeepsDraft(s) ==
    IF IsSome(s.error)
    THEN Result([s EXCEPT !.error = None, !.fetching_data = FALSE], <<>>)
    ELSE LET timezone == IF IsSome(s.location_being_typed)
                         THEN s.location_being_typed
                         ELSE s.requested_timezone
         IN  Result([s EXCEPT !.requested_timezone = timezone,
                              !.fetching_data = TRUE],
                    discover_local_timezone_or_make_geocode_request(timezone))

\* Key::Char('\n')
on_enter(s) ==
    IF IsSome(s.error)
    THEN Result([s EXCEPT !.error = None, !.fetching_data = FALSE], <<>>)
    ELSE LET timezone == IF IsSome(s.location_being_typed)
                         THEN s.location_being_typed
                         ELSE s.requested_timezone
         IN  Result([s EXCEPT !.location_being_typed = None,
                              !.requested_timezone = timezone,
                              !.fetching_data = TRUE],
                    discover_local_timezone_or_make_geocode_request(timezone))

\* Key::Ctrl('w')
on_ctrl_w(s) ==
    Result([s EXCEPT !.error = None, !.location_being_typed = Some(<<>>)], <<>>)

\* Key::Backspace: location_being_typed.as_mut().map(|l| l.pop())
on_backspace(s) ==
    IF IsSome(s.location_being_typed) /\ Unwrap(s.location_being_typed) # <<>>
    THEN LET l == Unwrap(s.location_being_typed)
         IN  Result([s EXCEPT !.location_being_typed = Some(SubSeq(l, 1, Len(l) - 1))],
                    <<>>)
    ELSE Result(s, <<>>)

\* on_char opening a draft when none is present
CharStartsDraft(s, character) ==
    IF IsSome(s.location_being_typed)
    THEN Result([s EXCEPT !.location_being_typed =
                     Some(Append(Unwrap(s.location_being_typed), character))], <<>>)
    ELSE Result([s EXCEPT !.location_being_typed = Some(<<character>>)], <<>>)

\* Key::Char(character): location_being_typed.as_mut().map(|l| l.push(character))
on_char(s, character) ==
    IF IsSome(s.location_being_typed)
    THEN Result([s EXCEPT !.location_being_typed =
                     Some(Append(Unwrap(s.location_being_typed), character))], <<>>)
    ELSE Result(s, <<>>)

\* Event::Key(key)
on_key(s, key) ==
    IF key = KeyChar("\n") THEN on_enter(s)
    ELSE IF key = KeyCtrl("w") THEN on_ctrl_w(s)
    ELSE IF key = KeyBackspace THEN on_backspace(s)
    ELSE IF key.kind = "Char" THEN on_char(s, key.ch)
    ELSE Result(s, <<>>)

----------------------------------------------------------------------------
(* Events *)

RECURSIVE Issue(_, _)
Issue(bag, requests) ==
    IF requests = <<>> THEN bag
    ELSE Issue(bag (+) SetToBag({Head(requests)}), Tail(requests))

Complete(bag, request) == bag (-) SetToBag({request})

\* what held before the handler ran
Pre ==
    [error |-> IsSome(error), draft |-> IsSome(location_being_typed),
     hint |-> IsSome(requested_timezone),
     forecast |-> weather_data # EmptyForecast]

Apply(r) ==
    /\ weather_data' = r.state.weather_data
    /\ requested_timezone' = r.state.requested_timezone
    /\ weather_location' = r.state.weather_location
    /\ geolocation' = r.state.geolocation
    /\ error' = r.state.error
    /\ fetching_data' = r.state.fetching_data
    /\ location_being_typed' = r.state.location_being_typed
    /\ sent' = r.sent

\* the state load() leaves, for a configuration with this "location" entry
Loaded(location) ==
    /\ weather_data = load(location).weather_data
    /\ requested_timezone = load(location).requested_timezone
    /\ weather_location = load(location).weather_location
    /\ geolocation = load(location).geolocation
    /\ error = load(location).error
    /\ fetching_data = load(location).fetching_data
    /\ location_being_typed = load(location).location_being_typed
    /\ pending = EmptyBag
    /\ permission_pending = TRUE
    /\ last = [ev |-> "load", pre |-> Pre]
    /\ sent = <<>>
    /\ idle_since_confirm = FALSE
    /\ inputs = 0

Init == \E location \in {None} \cup {Some(l) : l \in ConfigLocations} : Loaded(location)

\* the host answers the permission request of load()
PermissionRequestResult ==
    /\ permission_pending
    /\ LET r == on_permission_request_result(State)
       IN  /\ Apply(r)
           /\ pending' = Issue(pending, r.sent)
    /\ permission_pending' = FALSE
    /\ last' = [ev |-> "PermissionRequestResult", pre |-> Pre]
    /\ UNCHANGED <<idle_since_confirm, inputs>>

\* the user presses a key
KeyEvent ==
    \E key \in Keys :
        /\ inputs < MaxInputs
        /\ inputs' = inputs + 1
        /\ LET r == on_key(State, key)
           IN  /\ Apply(r)
               /\ pending' = Issue(pending, r.sent)
               /\ idle_since_confirm' =
                      (key = KeyChar("\n") /\ ~IsSome(error))
        /\ last' = [ev |-> "Key", key |-> key, pre |-> Pre]
        /\ UNCHANGED permission_pending

\* a command this plugin ran completes
RunCommandResult ==
    \E request \in BagToSet(pending), out \in CommandOutcomes :
        /\ request.call = "run_command"
        /\ LET r == on_run_command_result(State, out.exit_code, out.stdout,
                                          out.stderr, Some(request.id))
           IN  /\ Apply(r)
               /\ pending' = Issue(Complete(pending, request), r.sent)
        /\ last' = [ev |-> "RunCommandResult", exit_code |-> out.exit_code,
                    stdout |-> out.stdout, stderr |-> out.stderr,
                    context |-> Some(request.id), pre |-> Pre]
        /\ UNCHANGED <<permission_pending, idle_since_confirm, inputs>>

\* a web request this plugin made completes
WebRequestResult ==
    \E request \in BagToSet(pending) :
    \E response \in ResponsesFor(request.id) :
        /\ request.call = "web_request"
        /\ LET r == on_web_request_result(State, response.status_code,
                                          response.body, Some(request.id))
           IN  /\ Apply(r)
               /\ pending' = Issue(Complete(pending, request), r.sent)
        /\ last' = [ev |-> "WebRequestResult", status_code |-> response.status_code,
                    body |-> response.body, context |-> Some(request.id),
                    request |-> request, pre |-> Pre]
        /\ UNCHANGED <<permission_pending, idle_since_confirm, inputs>>

Next ==
    \/ PermissionRequestResult
    \/ KeyEvent
    \/ RunCommandResult
    \/ WebRequestResult

Spec == Init /\ [][Next]_vars

----------------------------------------------------------------------------
(* update() is total: the host may also deliver completions whose context  *)
(* carries no tag of this plugin.                                           *)

UnsolicitedRunCommandResult ==
    \E context \in ForeignContexts, out \in UnsolicitedOutcomes :
        /\ inputs < MaxInputs
        /\ inputs' = inputs + 1
        /\ LET r == on_run_command_result(State, out.exit_code, out.stdout,
                                          out.stderr, context)
           IN  /\ Apply(r)
               /\ pending' = Issue(pending, r.sent)
        /\ last' = [ev |-> "RunCommandResult", exit_code |-> out.exit_code,
                    stdout |-> out.stdout, stderr |-> out.stderr,
                    context |-> context, pre |-> Pre]
        /\ UNCHANGED <<permission_pending, idle_since_confirm>>

UnsolicitedWebRequestResult ==
    \E context \in ForeignContexts :
    \E response \in UnsolicitedResponses :
        /\ inputs < MaxInputs
        /\ inputs' = inputs + 1
        /\ LET r == on_web_request_result(State, response.status_code,
                                          response.body, context)
           IN  /\ Apply(r)
               /\ pending' = Issue(pending, r.sent)
        /\ last' = [ev |-> "WebRequestResult", status_code |-> response.status_code,
                    body |-> response.body, context |-> context, pre |-> Pre]
        /\ UNCHANGED <<permission_pending, idle_since_confirm>>

NextAny ==
    \/ PermissionRequestResult
    \/ KeyEvent
    \/ RunCommandResult
    \/ WebRequestResult
    \/ UnsolicitedRunCommandResult
    \/ UnsolicitedWebRequestResult

SpecAny == Init /\ [][NextAny]_vars

----------------------------------------------------------------------------
(* The resolver on every configured location up to MaxHintLen characters *)

HintAlphabet == {"a", "/", " ", "-"}

RECURSIVE Texts(_)
Texts(n) ==
    IF n = 0 THEN {<<>>}
    ELSE Texts(n - 1) \cup {Append(t, c) : t \in Texts(n - 1), c \in HintAlphabet}

InitGeo == \E hint \in Texts(MaxHintLen) : Loaded(Some(hint))

NextGeo ==
    \/ PermissionRequestResult
    \/ KeyEvent

SpecGeo == InitGeo /\ [][NextGeo]_vars

----------------------------------------------------------------------------
(* The weather parser on every document of ParserWeatherResponses, reached  *)
(* the way update() reaches it: permission, geocode answer, weather answer. *)

InitParser == \E location \in ConfigLocations : Loaded(Some(location))

\* a web request completes with an answer of ParserResponsesFor
ParserWebRequestResult ==
    \E request \in BagToSet(pending) :
    \E response \in ParserResponsesFor(request.id) :
        /\ request.call = "web_request"
        /\ LET r == on_web_request_result(State, response.status_code,
                                          response.body, Some(request.id))
           IN  /\ Apply(r)
               /\ pending' = Issue(Complete(pending, request), r.sent)
        /\ last' = [ev |-> "WebRequestResult", status_code |-> response.status_code,
                    body |-> response.body, context |-> Some(request.id),
                    request |-> request, pre |-> Pre]
        /\ UNCHANGED <<permission_pending, idle_since_confirm, inputs>>

NextParser ==
    \/ PermissionRequestResult
    \/ ParserWebRequestResult

SpecParser == InitParser /\ [][NextParser]_vars

----------------------------------------------------------------------------
(* Properties *)

Enter == KeyChar("\n")

LastIsConfirm == last.ev = "Key" /\ last.key = Enter
LastIsWeb(tag) == last.ev = "WebRequestResult" /\ last.context = Some(tag)

\* the completion handled last carried a non-success status or a body that
\* its parser rejects
LastWebFailed ==
    \/ last.status_code # 200
    \/ /\ last.context = Some("weather")
       /\ ~decode_weather(last.body).ok
    \/ /\ last.context = Some("geocode")
       /\ ~parse_lat_lon_and_location(last.body).ok

\* C1: a confirm key received while lastError is present clears lastError and
\* issues exactly one request in that handler: the timezone command when no
\* hint is known, a geocode request when one is.
C1_ConfirmOnErrorRetries ==
    (LastIsConfirm /\ last.pre.error) =>
        /\ error = None
        /\ Len(sent) = 1
        /\ sent[1].id = IF IsSome(requested_timezone)
                        THEN "geocode" ELSE TIMEZONE_COMMAND_ID

\* C2: right after the handler of a failed weather or geocode completion,
\* lastError is present and isFetching is false.
C2_WebFailureEndsFetching ==
    ((LastIsWeb("weather") \/ LastIsWeb("geocode")) /\ LastWebFailed) =>
        (IsSome(error) /\ ~fetching_data)

\* C3: the forecast changes only in the handler of a weather completion with
\* status 200 whose body decodes; every other event leaves it as it was.
C3_ForecastChangesOnlyOnWeatherSuccess ==
    [][weather_data' # weather_data =>
           /\ last'.ev = "WebRequestResult"
           /\ last'.context = Some("weather")
           /\ last'.status_code = 200
           /\ decode_weather(last'.body).ok]_vars

\* a displayed forecast is still there right after a failed weather completion
C3_Witness ==
    /\ LastIsWeb("weather")
    /\ LastWebFailed
    /\ IsSome(error)
    /\ DOMAIN weather_data = 0..(HOURS - 1)

\* C4: draftInput and lastError are never both present.
C4_DraftAndErrorExclusive ==
    ~(IsSome(location_being_typed) /\ IsSome(error))

\* C5: after a confirm that set isFetching, with every completion delivered
\* and no further key pressed, the state reaches isFetching = false or
\* lastError present.  With nothing outstanding and no key pressed no event is
\* left to come, so the claim is that every such state already satisfies it.
C5_FetchNeverStuck ==
    (idle_since_confirm /\ pending = EmptyBag /\ ~permission_pending) =>
        (~fetching_data \/ IsSome(error))

\* C6: a completion whose tag is absent or none of "geocode", "weather" and
\* the timezone-command tag changes no field of the state and issues no
\* request.
C6_UnknownTagIgnored ==
    [][(/\ last'.ev \in {"RunCommandResult", "WebRequestResult"}
        /\ last'.context \notin
               {Some("geocode"), Some("weather"), Some(TIMEZONE_COMMAND_ID)})
           => (UNCHANGED state_vars /\ sent' = <<>>)]_vars

\* C7: right after a command completion with a non-zero or missing exit
\* status, or with a non-empty error stream, lastError is present.
C7_CommandFailureSetsError ==
    (last.ev = "RunCommandResult"
        /\ (last.exit_code # Some(0) \/ last.stderr # <<>>))
        => IsSome(error)

\* C8: a confirm key received while lastError is absent sets isFetching,
\* makes a present draft the new hint and leaves the draft absent, and issues
\* exactly one resolution request.
C8_ConfirmStartsFetch ==
    [][(last'.ev = "Key" /\ last'.key = Enter /\ ~IsSome(error)) =>
           /\ fetching_data'
           /\ location_being_typed' = None
           /\ requested_timezone' =
                  IF IsSome(location_being_typed)
                  THEN location_being_typed ELSE requested_timezone
           /\ Len(sent') = 1
           /\ sent'[1].id \in {"geocode", TIMEZONE_COMMAND_ID}
           /\ pending' = pending (+) SetToBag({sent'[1]})]_vars

\* a typed location was confirmed: it is the hint and its geocode request is out
C8_Witness ==
    /\ LastIsConfirm
    /\ ~last.pre.error
    /\ last.pre.draft
    /\ fetching_data
    /\ location_being_typed = None
    /\ requested_timezone = Some(<<"a">>)
    /\ Len(sent) = 1
    /\ sent[1].id = "geocode"

\* the handler last run was a resolution step: the permission result, or a
\* confirm with no error
LastIsResolution ==
    \/ last.ev = "PermissionRequestResult"
    \/ LastIsConfirm /\ ~last.pre.error

\* C9: a resolution step issues a geocode request tagged "geocode" when a
\* hint is present (configured, typed or discovered) and the timezone command,
\* tagged with the command id, when none is; no handler issues the command
\* while a hint is present.
C9_ResolverBranches ==
    /\ LastIsResolution =>
           /\ Len(sent) = 1
           /\ IsSome(requested_timezone) =>
                  sent[1].call = "web_request" /\ sent[1].id = "geocode"
           /\ ~IsSome(requested_timezone) =>
                  sent[1].call = "run_command" /\ sent[1].id = TIMEZONE_COMMAND_ID
    /\ (last.ev = "RunCommandResult" /\ IsSome(requested_timezone)) =>
           /\ Len(sent) = 1
           /\ sent[1].call = "web_request" /\ sent[1].id = "geocode"
    /\ \A i \in 1..Len(sent) :
           sent[i].call = "run_command" => requested_timezone = None

\* the configured location is geocoded at startup, with no timezone command
C9_Witness ==
    /\ last.ev = "PermissionRequestResult"
    /\ requested_timezone = Some(<<"E", "/", "B">>)
    /\ Len(sent) = 1
    /\ sent[1].id = "geocode"

\* the text after the last '/' of hint (all of it when there is none), with
\* each space and each hyphen turned into '+'
PlaceNameOf(hint) ==
    LET slashes == {i \in 1..Len(hint) : hint[i] = "/"}
        from == IF slashes = {} THEN 1
                ELSE 1 + CHOOSE i \in slashes : \A j \in slashes : j <= i
    IN  [k \in 1..(Len(hint) + 1 - from) |->
            IF hint[from + k - 1] \in {" ", "-"} THEN "+" ELSE hint[from + k - 1]]

\* C10: the place name of every geocode request is the text after the last
\* '/' of the hint, or the whole hint when it has none, with spaces and
\* hyphens replaced by '+' and every other character unchanged.
C10_GeocodePlaceName ==
    \A i \in 1..Len(sent) :
        sent[i].id = "geocode" =>
            /\ IsSome(requested_timezone)
            /\ sent[i].name = PlaceNameOf(Unwrap(requested_timezone))

\* a hint with two separators, a hyphen and a space after the last of them
C10_Witness ==
    /\ requested_timezone = Some(<<"/", "/", "-">>)
    /\ sent = <<GeocodeRequest(<<"+">>)>>

\* the completion handled last is a weather completion with status 200 whose
\* body decodes
LastWeatherSucceeded ==
    /\ LastIsWeb("weather")
    /\ last.status_code = 200
    /\ decode_weather(last.body).ok

\* C11: right after a weather completion with success status and a fully
\* decodable body, the forecast is exactly the decoded set, whatever forecast
\* was stored before, and isFetching is false.
C11_WeatherSuccessReplacesForecast ==
    LastWeatherSucceeded =>
        /\ weather_data = decode_weather(last.body).val
        /\ DOMAIN weather_data = 0..(HOURS - 1)
        /\ ~fetching_data

\* a stored forecast was replaced by the forecast of the second document
C11_Witness ==
    /\ LastWeatherSucceeded
    /\ last.pre.forecast
    /\ last.body = WeatherBody(HOURS + 1, 2)
    /\ weather_data[0].temperature_2m = HourlyValue(2, "temperature_2m", 0)
    /\ ~fetching_data

\* the first entry of the results array of body has two numbers as
\* coordinates and two strings as name and country
FirstEntryWellTyped(body) ==
    /\ body.utf8 /\ body.json
    /\ body.doc.results # <<>>
    /\ body.doc.results[1].latitude.t = "number"
    /\ body.doc.results[1].longitude.t = "number"
    /\ body.doc.results[1].name.t = "string"
    /\ body.doc.results[1].country.t = "string"

\* C12: the handler of a geocode completion with success status and a well
\* typed first results entry stores that entry's coordinates as geolocation
\* and "{name}, {country}" as the label, issues exactly one weather request with
\* the same coordinates, and leaves isFetching as it was.
C12_GeocodeSuccessContinues ==
    [][(/\ last'.ev = "WebRequestResult"
        /\ last'.context = Some("geocode")
        /\ last'.status_code = 200
        /\ FirstEntryWellTyped(last'.body)) =>
           LET entry == last'.body.doc.results[1]
           IN  /\ geolocation' = Some(<<entry.latitude.n, entry.longitude.n>>)
               /\ weather_location' = Some(<<entry.name.s, ", ", entry.country.s>>)
               /\ sent' = <<WeatherRequest(entry.latitude.n, entry.longitude.n)>>
               /\ fetching_data' = fetching_data
               /\ pending' = (pending (-) SetToBag({last'.request}))
                                  (+) SetToBag({sent'[1]})]_vars

\* during a fetch, New York is resolved from an answer with two entries: the
\* first entry is stored, its weather request is out, the fetch goes on
C12_Witness ==
    /\ LastIsWeb("geocode")
    /\ last.status_code = 200
    /\ geolocation = Some(<<40, -74>>)
    /\ weather_location = Some(<<"New York", ", ", "United States">>)
    /\ sent = <<WeatherRequest(40, -74)>>
    /\ fetching_data
    /\ weather_data = EmptyForecast

\* C13: geolocation changes only in the handler of a geocode completion with
\* success status whose body decodes; keys, command completions, weather
\* completions and failed geocode completions, an empty results array
\* included, leave it as it was.
C13_GeolocationChangesOnlyOnGeocodeSuccess ==
    [][geolocation' # geolocation =>
           /\ last'.ev = "WebRequestResult"
           /\ last'.context = Some("geocode")
           /\ last'.status_code = 200
           /\ parse_lat_lon_and_location(last'.body).ok]_vars

\* stored coordinates are still there right after a geocode answer with an
\* empty results array was rejected
C13_Witness ==
    /\ LastIsWeb("geocode")
    /\ last.status_code = 200
    /\ last.body.doc.results = <<>>
    /\ error = Some(<<"Failed to parse geocode: ", "Failed to parse latitude">>)
    /\ geolocation = Some(<<52, 13>>)

\* field of body["hourly"] holds at hour i a value of the type the record
\* takes: a number, not negative for the three integer fields
WellTyped(body, field, i) ==
    LET v == Hourly(body.doc, field, i)
    IN  /\ v.t = "number"
        /\ field \in {"precipitation_probability", "wind_direction_10m",
                      "weather_code"} => v.n >= 0

AllWellTyped(body) ==
    /\ body.utf8 /\ body.json
    /\ \A i \in 0..(HOURS - 1) : \A field \in HourlyFields :
           WellTyped(body, field, i)

\* C14: the weather parser returns a forecast exactly when each of the five
\* fields is present and well typed at every hour 0..166; the forecast then
\* has exactly the keys 0..166 and each record holds the source values of its
\* hour; otherwise it returns an error and nothing is stored, so a stored
\* forecast never has fewer than 167 records.
C14_ParserAllOrNothing ==
    /\ (LastIsWeb("weather") /\ last.status_code = 200) =>
           LET parsed == parse_weather_data(last.body)
               source(field, i) == Hourly(last.body.doc, field, i).n
           IN  /\ parsed.ok <=> AllWellTyped(last.body)
               /\ parsed.ok =>
                      /\ DOMAIN parsed.val = 0..(HOURS - 1)
                      /\ \A i \in 0..(HOURS - 1) :
                             /\ parsed.val[i].temperature_2m =
                                    source("temperature_2m", i)
                             /\ parsed.val[i].precipitation_probability =
                                    source("precipitation_probability", i)
                             /\ parsed.val[i].wind_speed_10m =
                                    source("wind_speed_10m", i)
                             /\ parsed.val[i].wind_direction_10m =
                                    source("wind_direction_10m", i)
                             /\ parsed.val[i].wmo_code = source("weather_code", i)
                      /\ weather_data = parsed.val
               /\ ~parsed.ok =>
                      /\ parsed.val = <<>>
                      /\ IsSome(error)
                      /\ ~last.pre.forecast => weather_data = EmptyForecast
    /\ weather_data = EmptyForecast \/ DOMAIN weather_data = 0..(HOURS - 1)

\* a document whose only defect is a string as the weather code of the last
\* hour read was rejected and nothing was stored
C14_Witness ==
    /\ LastIsWeb("weather")
    /\ last.body = DefectiveWeatherBody(HOURS, 1, "weather_code", HOURS - 1,
                                        JsonString("x"))
    /\ error = Some(<<"Failed to parse data: ", "Failed to parse weather code">>)
    /\ weather_data = EmptyForecast

\* the key handled in this step
KeyHandled(key) == last'.ev = "Key" /\ last'.key = key

\* the state fields other than the draft
all_but_draft ==
    <<weather_data, requested_timezone, weather_location, geolocation, error,
      fetching_data>>

\* C15: the new-location key clears lastError and sets the draft to the empty
\* string.  An append-character or delete-character key changes no field but
\* the draft and issues nothing: with no draft the whole state is unchanged,
\* with a draft append extends it by exactly that character and delete removes
\* exactly its last character, an empty draft staying empty.
C15_EditingKeys ==
    [][/\ KeyHandled(KeyCtrl("w")) =>
              error' = None /\ location_being_typed' = Some(<<>>)
       /\ \A c \in Alphabet :
              KeyHandled(KeyChar(c)) =>
                  /\ UNCHANGED all_but_draft
                  /\ sent' = <<>>
                  /\ location_being_typed' =
                         IF IsSome(location_being_typed)
                         THEN Some(Unwrap(location_being_typed) \o <<c>>)
                         ELSE None
       /\ KeyHandled(KeyBackspace) =>
              /\ UNCHANGED all_but_draft
              /\ sent' = <<>>
              /\ location_being_typed' =
                     IF ~IsSome(location_being_typed) THEN None
                     ELSE IF Unwrap(location_being_typed) = <<>> THEN Some(<<>>)
                     ELSE Some(SubSeq(Unwrap(location_being_typed), 1,
                                      Len(Unwrap(location_being_typed)) - 1))]_vars

\* after the new-location key and the character a, a space was appended
C15_Witness ==
    /\ last.ev = "Key"
    /\ last.key = KeyChar(" ")
    /\ last.pre.draft
    /\ location_being_typed = Some(<<"a", " ">>)
    /\ error = None

\* the three stages of a fetch, by the tag their request carries
Stages == {TIMEZONE_COMMAND_ID, "geocode", "weather"}

\* number of requests of a stage issued and not yet completed
InFlight(stage) ==
    LET requests == {request \in BagToSet(pending) : request.id = stage}
    IN  BagCardinality([request \in requests |-> pending[request]])

\* C16: at every moment at most one request is in flight per stage (timezone
\* discovery, geocode, weather), whatever the sequence of events.
C16_OneRequestPerStage ==
    \A stage \in Stages : InFlight(stage) <= 1

\* the coordinates a weather request was made for
RequestedFor(request) == Some(<<request.lat, request.lon>>)

\* C17: completions are told apart by their tag only.  A successful weather
\* completion that answers a request made for other coordinates than the
\* stored geolocation is accepted like any other: it replaces the forecast
\* and leaves geolocation and label as they are, so the stored forecast is
\* then one fetched for other coordinates than the stored ones.
C17_StaleWeatherOverwrites ==
    [][(/\ last'.ev = "WebRequestResult"
        /\ last'.context = Some("weather")
        /\ last'.status_code = 200
        /\ decode_weather(last'.body).ok
        /\ RequestedFor(last'.request) # geolocation) =>
           /\ weather_data' = decode_weather(last'.body).val
           /\ geolocation' = geolocation
           /\ weather_location' = weather_location
           /\ RequestedFor(last'.request) # geolocation']_vars

\* two fetches overlapped, the earlier resolved to Berlin, the later one to
\* New York; a forecast was stored, then the answer to Berlin's weather request
\* came last: no request is outstanding and the forecast is Berlin's under New
\* York's coordinates and label
C17_Witness ==
    /\ LastWeatherSucceeded
    /\ last.pre.forecast
    /\ last.request = WeatherRequest(52, 13)
    /\ requested_timezone = Some(<<"a">>)
    /\ geolocation = Some(<<40, -74>>)
    /\ weather_location = Some(<<"New York", ", ", "United States">>)
    /\ weather_data = decode_weather(last.body).val
    /\ pending = EmptyBag
    /\ ~permission_pending

\* the command completion handled in this step carries the timezone-command
\* tag, exit status 0 and an empty error stream
CommandSucceeded ==
    /\ last'.context = Some(TIMEZONE_COMMAND_ID)
    /\ last'.exit_code = Some(0)
    /\ last'.stderr = <<>>

\* C18: a command completion issues a geocode request and changes the hint
\* only when it carries the timezone-command tag, exit status 0 and an empty
\* error stream; the hint is then the standard output (when that is text)
\* without surrounding whitespace and the geocode request is the one derived
\* from that hint.
C18_CommandContinuesOnlyOnSuccess ==
    [][last'.ev = "RunCommandResult" =>
           IF CommandSucceeded
           THEN last'.stdout # INVALID_UTF8 =>
                    /\ requested_timezone' = Some(trim(last'.stdout))
                    /\ sent' = make_geocode_request(requested_timezone')
           ELSE /\ requested_timezone' = requested_timezone
                /\ sent' = <<>>]_vars

\* C19: with completions delivered only for requests that were issued,
\* geolocation is present exactly when the label is present, and a forecast
\* that is not empty implies that both are present.
C19_CausalChain ==
    /\ IsSome(geolocation) <=> IsSome(weather_location)
    /\ weather_data # EmptyForecast =>
           IsSome(geolocation) /\ IsSome(weather_location)

\* a forecast is stored, with the coordinates and the label it was fetched for
C19_Witness ==
    /\ LastWeatherSucceeded
    /\ DOMAIN weather_data = 0..(HOURS - 1)
    /\ geolocation = RequestedFor(last.request)
    /\ IsSome(weather_location)

\* C20: lastError goes from present to absent only in the handler of a confirm
\* or new-location key; no command completion and no HTTP completion, a
\* successfully decoded weather answer included, clears it.
C20_ErrorClearedOnlyByKeys ==
    [][(IsSome(error) /\ ~IsSome(error')) =>
           /\ last'.ev = "Key"
           /\ last'.key \in {Enter, KeyCtrl("w")}]_vars

\* right after a successful weather completion stored its forecast, the
\* error of an earlier failure is still present
C20_Witness ==
    /\ LastWeatherSucceeded
    /\ last.pre.error
    /\ IsSome(error)
    /\ weather_data = decode_weather(last.body).val
    /\ ~fetching_data

====
